---- MODULE Spec2Model ----
(***************************************************************************)
(* Model of infrasim/model.py: the task supervisor (Task.run, terminate,   *)
(* status over pid files and /proc), the node orchestrator (CNode.start,   *)
(* stop, status) and workspace materialisation (CNode.init_workspace,      *)
(* CNode.init).                                                            *)
(***************************************************************************)
EXTENDS Integers, Sequences, FiniteSets, TLC

\* ------------------------------------------------------------------------
\* Bounds
\* ------------------------------------------------------------------------
\* size of the host's pid space
MaxPid == 2

Pids == 1..MaxPid

\* ------------------------------------------------------------------------
\* Program constants
\* ------------------------------------------------------------------------
\* Task.run, run-mask branch: "if time.time()-start > 5"
PollWindow == 5

Tasks == {"socat", "bmc", "compute"}

\* CNode.init: set_priority(0) / set_priority(1) / set_priority(2)
priority(t) ==
  CASE t = "socat" -> 0
    [] t = "bmc" -> 1
    [] t = "compute" -> 2

run_mask_unset(t) == FALSE

\* Task.__init__ sets __run_mask False; CNode.init calls
\* compute_obj.set_run_mask(True) and on no other task
run_mask(t) == t = "compute"

\* Task.__init__ sets __debug False and no method ever changes it
debug(t) == FALSE

\* CNode.init appends socat_obj, bmc_obj, compute_obj in this order
InitTasksList == <<"socat", "bmc", "compute">>

\* ------------------------------------------------------------------------
\* Pid files and /proc
\* ------------------------------------------------------------------------
\* content of the file <workspace>/.<task_name>
Absent == [kind |-> "absent", pid |-> 0]
Empty == [kind |-> "empty", pid |-> 0]
Malformed == [kind |-> "malformed", pid |-> 0]
PidContent(p) == [kind |-> "pid", pid |-> p]

\* Task.get_task_pid: None when the file cannot be opened, else the
\* stripped first line (a string)
get_task_pid(c) ==
  IF c.kind = "absent" THEN [kind |-> "None", pid |-> 0] ELSE c

\* Python 2 "pid > 0" for pid a str or None: None is smaller than every
\* number, every str (the empty one too) is greater than every number
StrNeverGreaterThanZero(pid) == FALSE

PyGreaterThanZero(pid) == pid.kind # "None"

\* Python truthiness of "if task_pid:" for a str or None
PyTruthy(pid) == pid.kind \notin {"None", "empty"}

\* os.path.exists("/proc/{}".format(pid)): "/proc/None" and "/proc/abc" do
\* not exist, "/proc/" (empty pid) does, "/proc/<n>" iff process n exists
ProcPathExists(pid, pr) ==
  CASE pid.kind = "None" -> FALSE
    [] pid.kind = "empty" -> TRUE
    [] pid.kind = "malformed" -> FALSE
    [] pid.kind = "pid" -> pr[pid.pid] # "none"

AliveSet(pr) == {p \in Pids : pr[p] # "none"}
FreePids(pr) == {p \in Pids : pr[p] = "none"}

\* ------------------------------------------------------------------------
\* list.sort(key=lambda x: x.get_priority(), reverse=...): a stable sort
\* ------------------------------------------------------------------------
RECURSIVE InsertByPriority(_, _, _)
InsertByPriority(t, s, reverse) ==
  IF s = <<>> THEN <<t>>
  ELSE LET before == IF reverse THEN priority(Head(s)) >= priority(t)
                     ELSE priority(Head(s)) <= priority(t)
       IN IF before THEN <<Head(s)>> \o InsertByPriority(t, Tail(s), reverse)
          ELSE <<t>> \o s

RECURSIVE SortFrom(_, _, _)
SortFrom(s, acc, reverse) ==
  IF s = <<>> THEN acc
  ELSE SortFrom(Tail(s), InsertByPriority(Head(s), acc, reverse), reverse)

SortTasksUnsorted(s, reverse) == s

SortTasks(s, reverse) == SortFrom(s, <<>>, reverse)

\* ------------------------------------------------------------------------
\* State
\* ------------------------------------------------------------------------
VARIABLES
  tasks_list,   \* CNode.__tasks_list, in its current order
  pidfile,      \* content of each task's pid file
  procs,        \* the host's process table: pid -> owner
  op,           \* the CNode call in progress or last made
  running,      \* TRUE while that call's loop is not over
  idx,          \* position of the loop in tasks_list
  elapsed,      \* time.time()-start of the run-mask poll, in seconds
  calls,        \* tasks whose run/terminate/status this CNode call invoked
  err,          \* exception that ended the CNode call, "none" otherwise
  last,         \* the Task call that has just returned (history)
  ws,           \* the workspace directory <HOME>/.infrasim/<node_name>
  cnode,        \* the CNode object of the last CNode(...).init()
  lastInit,     \* what the last CNode.init was given and found (history)
  option_list,  \* CElement.__option_list of one element under test
  added,        \* the arguments of the add_option calls made on it (history)
  compute_obj,  \* a CCompute object: its descriptor and its element tree
  cmdline,      \* what the last call on compute_obj returned or raised
  numactl,      \* a NumaCtl object: node list, CPU list, per-node table
  lastTake      \* the last get_cpu_list call and what it returned (history)

supervisorVars == <<pidfile, procs, op, running, idx, elapsed, calls, err, last>>

workspaceVars == <<ws, cnode, lastInit>>

elementVars == <<option_list, added>>

computeVars == <<compute_obj, cmdline>>

numaVars == <<numactl, lastTake>>

extraVars == <<elementVars, computeVars, numaVars>>

vars == <<tasks_list, supervisorVars, workspaceVars, extraVars>>

NoCall ==
  [op |-> "none", task |-> "none", pre |-> Absent, preAlive |-> {},
   spawned |-> 0, spawnPid |-> 0, removed |-> FALSE, raised |-> "none",
   report |-> "none"]

\* ------------------------------------------------------------------------
\* Utility.execute_command: Popen, sleep 1 s, probe /proc/<pid>
\* ------------------------------------------------------------------------
\* outcomes: the child p is alive at the probe, the child p died within the
\* window (CommandRunFailed), or Popen itself failed (OSError)
execute_command(t, pr) ==
  {[pid |-> p, procs |-> [pr EXCEPT ![p] = t], raised |-> "none"] :
      p \in FreePids(pr)}
  \cup {[pid |-> p, procs |-> pr, raised |-> "CommandRunFailed"] :
      p \in FreePids(pr)}
  \cup (IF FreePids(pr) = {}
        THEN {[pid |-> 0, procs |-> pr, raised |-> "OSError"]} ELSE {})

\* ------------------------------------------------------------------------
\* Task.run, the branch taken when run-mask and debug are unset
\* ------------------------------------------------------------------------
RunKeepsOldPid(t, c, pr) ==
  LET pid == get_task_pid(c)
  IN IF PyGreaterThanZero(pid) /\ ProcPathExists(pid, pr)
     THEN {[file |-> c, procs |-> pr, spawned |-> 0, spawnPid |-> 0,
            removed |-> FALSE, raised |-> "none",
            report |-> "already running"]}
     ELSE {[file |-> c, procs |-> x.procs,
            spawned |-> IF x.pid > 0 THEN 1 ELSE 0, spawnPid |-> x.pid,
            removed |-> FALSE, raised |-> x.raised,
            report |-> IF x.raised = "none" THEN "start to run" ELSE "none"] :
             x \in execute_command(t, pr)}

RunLeavesStaleFile(t, c, pr) ==
  LET pid == get_task_pid(c)
  IN IF PyGreaterThanZero(pid) /\ ProcPathExists(pid, pr)
     THEN {[file |-> c, procs |-> pr, spawned |-> 0, spawnPid |-> 0,
            removed |-> FALSE, raised |-> "none",
            report |-> "already running"]}
     ELSE {[file |-> IF x.raised = "none" THEN PidContent(x.pid) ELSE c,
            procs |-> x.procs,
            spawned |-> IF x.pid > 0 THEN 1 ELSE 0, spawnPid |-> x.pid,
            removed |-> FALSE, raised |-> x.raised,
            report |-> IF x.raised = "none" THEN "start to run" ELSE "none"] :
             x \in execute_command(t, pr)}

TaskRun(t, c, pr) ==
  LET pid == get_task_pid(c)
  IN IF PyGreaterThanZero(pid) /\ ProcPathExists(pid, pr)
     THEN \* "is already running"
          {[file |-> c, procs |-> pr, spawned |-> 0, spawnPid |-> 0,
            removed |-> FALSE, raised |-> "none",
            report |-> "already running"]}
     ELSE LET removed == PyGreaterThanZero(pid)      \* os.remove(pid file)
              c1 == IF removed THEN Absent ELSE c
          IN {[file |-> IF x.raised = "none" THEN PidContent(x.pid) ELSE c1,
               procs |-> x.procs,
               spawned |-> IF x.pid > 0 THEN 1 ELSE 0,
               spawnPid |-> x.pid,
               removed |-> removed,
               raised |-> x.raised,
               report |-> IF x.raised = "none" THEN "start to run"
                          ELSE "none"] :
                x \in execute_command(t, pr)}

\* ------------------------------------------------------------------------
\* Task.terminate
\* ------------------------------------------------------------------------
\* os.kill(int(task_pid), SIGTERM) on a pid that parses: ESRCH when no such
\* process, EPERM possible on a process of somebody else, else the signal is
\* delivered and the process either exits within the 1 s sleep or ignores it
KillOutcomes(p, pr) ==
  IF pr[p] = "none" THEN {"ESRCH"}
  ELSE {"exits", "ignores"} \cup (IF pr[p] = "other" THEN {"EPERM"} ELSE {})

TerminateKeepsFileOnError(t, c, pr) ==
  LET task_pid == get_task_pid(c)
  IN IF ~PyTruthy(task_pid)
     THEN {[file |-> c, procs |-> pr, raised |-> "none", report |-> "none"]}
     ELSE IF task_pid.kind = "malformed"
     THEN {[file |-> c, procs |-> pr, raised |-> "ValueError",
            report |-> "stop"]}
     ELSE {[file |-> IF o \in {"ESRCH", "EPERM"} THEN c ELSE Absent,
            procs |-> IF o = "exits" THEN [pr EXCEPT ![task_pid.pid] = "none"]
                      ELSE pr,
            raised |-> "none",
            report |-> IF o = "EPERM" THEN "stop failed" ELSE "stop"] :
             o \in KillOutcomes(task_pid.pid, pr)}

TaskTerminate(t, c, pr) ==
  LET task_pid == get_task_pid(c)
  IN IF ~PyTruthy(task_pid)
     THEN \* "if task_pid:" is false: nothing is done
          {[file |-> c, procs |-> pr, raised |-> "none", report |-> "none"]}
     ELSE IF task_pid.kind = "malformed"
     THEN \* int(task_pid) raises ValueError, which "except OSError" lets out
          {[file |-> c, procs |-> pr, raised |-> "ValueError",
            report |-> "stop"]}
     ELSE \* the pid file exists on both paths, so both remove it
          {[file |-> Absent,
            procs |-> IF o = "exits" THEN [pr EXCEPT ![task_pid.pid] = "none"]
                      ELSE pr,
            raised |-> "none",
            report |-> IF o = "EPERM" THEN "stop failed" ELSE "stop"] :
             o \in KillOutcomes(task_pid.pid, pr)}

\* ------------------------------------------------------------------------
\* Task.status
\* ------------------------------------------------------------------------
StatusKeepsStaleFile(t, c, pr) ==
  LET task_pid == get_task_pid(c)
  IN IF c.kind = "absent"
     THEN [file |-> c, report |-> "stopped"]
     ELSE IF ~ProcPathExists(task_pid, pr)
     THEN [file |-> c, report |-> "stopped"]
     ELSE [file |-> c,
           report |-> IF PyTruthy(task_pid) THEN "running" ELSE "none"]

TaskStatus(t, c, pr) ==
  LET task_pid == get_task_pid(c)
  IN IF c.kind = "absent"                      \* not os.path.exists(pid_file)
     THEN [file |-> c, report |-> "stopped"]
     ELSE IF ~ProcPathExists(task_pid, pr)
     THEN [file |-> Absent, report |-> "stopped"]   \* os.remove(pid_file)
     ELSE [file |-> c,
           report |-> IF PyTruthy(task_pid) THEN "running" ELSE "none"]

\* ------------------------------------------------------------------------
\* CNode.start / CNode.stop / CNode.status: "for task in self.__tasks_list"
\* ------------------------------------------------------------------------
\* one iteration of the for loop over n tasks has made its call at position
\* i: an exception leaves the loop and the method, otherwise the loop moves on
ForLoopIgnoresError(raised, i, n) ==
  [err |-> "none", idx |-> i + 1, running |-> i + 1 <= n]

ForLoop(raised, i, n) ==
  IF raised # "none"
  THEN [err |-> raised, idx |-> i, running |-> FALSE]
  ELSE [err |-> "none", idx |-> i + 1, running |-> i + 1 <= n]

Advance(raised) ==
  LET nxt == ForLoop(raised, idx, Len(tasks_list))
  IN /\ err' = nxt.err
     /\ idx' = nxt.idx
     /\ running' = nxt.running

\* CNode.start: sort ascending, then run each task
BeginStart ==
  /\ ~running
  /\ tasks_list # <<>>
  /\ tasks_list' = SortTasks(tasks_list, FALSE)
  /\ op' = "start"
  /\ running' = TRUE
  /\ idx' = 1
  /\ elapsed' = 0
  /\ calls' = <<>>
  /\ err' = "none"
  /\ last' = NoCall
  /\ UNCHANGED <<pidfile, procs, workspaceVars, extraVars>>

\* Task.run of the task the start loop has reached, run-mask unset
RunTask ==
  /\ running
  /\ op = "start"
  /\ LET t == tasks_list[idx]
     IN /\ ~run_mask(t)
        /\ ~debug(t)
        /\ \E r \in TaskRun(t, pidfile[t], procs) :
             /\ pidfile' = [pidfile EXCEPT ![t] = r.file]
             /\ procs' = r.procs
             /\ last' = [op |-> "run", task |-> t, pre |-> pidfile[t],
                         preAlive |-> AliveSet(procs), spawned |-> r.spawned,
                         spawnPid |-> r.spawnPid, removed |-> r.removed,
                         raised |-> r.raised, report |-> r.report]
             /\ calls' = Append(calls, t)
             /\ Advance(r.raised)
  /\ elapsed' = 0
  /\ UNCHANGED <<tasks_list, op, workspaceVars, extraVars>>

\* Task.run of the task the start loop has reached, run-mask set: one
\* iteration of the "while True" poll
RunMaskedPoll ==
  /\ running
  /\ op = "start"
  /\ LET t == tasks_list[idx]
         pid == get_task_pid(pidfile[t])
     IN /\ run_mask(t)
        /\ IF pid.kind # "None" \/ elapsed > PollWindow
           THEN /\ last' = [op |-> "run", task |-> t, pre |-> pidfile[t],
                            preAlive |-> AliveSet(procs), spawned |-> 0,
                            spawnPid |-> 0, removed |-> FALSE,
                            raised |-> "none",
                            report |-> IF pid.kind = "None"
                                       THEN "fail to start" ELSE "run"]
                /\ calls' = Append(calls, t)
                /\ Advance("none")
                /\ elapsed' = 0
           ELSE /\ elapsed' = elapsed + 1
                /\ UNCHANGED <<last, calls, err, idx, running>>
  /\ UNCHANGED <<tasks_list, op, pidfile, procs, workspaceVars, extraVars>>

\* CNode.stop: sort descending, then terminate each task
BeginStop ==
  /\ ~running
  /\ tasks_list # <<>>
  /\ tasks_list' = SortTasks(tasks_list, TRUE)
  /\ op' = "stop"
  /\ running' = TRUE
  /\ idx' = 1
  /\ elapsed' = 0
  /\ calls' = <<>>
  /\ err' = "none"
  /\ last' = NoCall
  /\ UNCHANGED <<pidfile, procs, workspaceVars, extraVars>>

\* Task.terminate of the task the stop loop has reached
TerminateTask ==
  /\ running
  /\ op = "stop"
  /\ LET t == tasks_list[idx]
     IN \E r \in TaskTerminate(t, pidfile[t], procs) :
          /\ pidfile' = [pidfile EXCEPT ![t] = r.file]
          /\ procs' = r.procs
          /\ last' = [op |-> "terminate", task |-> t, pre |-> pidfile[t],
                      preAlive |-> AliveSet(procs), spawned |-> 0,
                      spawnPid |-> 0, removed |-> FALSE,
                      raised |-> r.raised, report |-> r.report]
          /\ calls' = Append(calls, t)
          /\ Advance(r.raised)
  /\ UNCHANGED <<tasks_list, op, elapsed, workspaceVars, extraVars>>

\* CNode.status: no sort, status of each task in the list's current order
BeginStatus ==
  /\ ~running
  /\ tasks_list # <<>>
  /\ op' = "status"
  /\ running' = TRUE
  /\ idx' = 1
  /\ elapsed' = 0
  /\ calls' = <<>>
  /\ err' = "none"
  /\ last' = NoCall
  /\ UNCHANGED <<tasks_list, pidfile, procs, workspaceVars, extraVars>>

\* Task.status of the task the status loop has reached
StatusTask ==
  /\ running
  /\ op = "status"
  /\ LET t == tasks_list[idx]
         r == TaskStatus(t, pidfile[t], procs)
     IN /\ pidfile' = [pidfile EXCEPT ![t] = r.file]
        /\ last' = [op |-> "status", task |-> t, pre |-> pidfile[t],
                    preAlive |-> AliveSet(procs), spawned |-> 0,
                    spawnPid |-> 0, removed |-> FALSE, raised |-> "none",
                    report |-> r.report]
        /\ calls' = Append(calls, t)
        /\ Advance("none")
  /\ UNCHANGED <<tasks_list, op, procs, elapsed, workspaceVars, extraVars>>

\* ------------------------------------------------------------------------
\* What the host does meanwhile
\* ------------------------------------------------------------------------
\* a process exits
ChildExit ==
  \E p \in Pids :
    /\ procs[p] # "none"
    /\ procs' = [procs EXCEPT ![p] = "none"]
    /\ last' = NoCall
    /\ UNCHANGED <<tasks_list, pidfile, op, running, idx, elapsed, calls, err,
                   workspaceVars, extraVars>>

\* an unrelated process starts and takes a free pid
OtherProcess ==
  \E p \in Pids :
    /\ procs[p] = "none"
    /\ procs' = [procs EXCEPT ![p] = "other"]
    /\ last' = NoCall
    /\ UNCHANGED <<tasks_list, pidfile, op, running, idx, elapsed, calls, err,
                   workspaceVars, extraVars>>

\* the BMC's startcmd script spawns the VMM, which writes the compute task's
\* pid file
ExternalSpawnVmm ==
  \E p \in Pids :
    /\ procs[p] = "none"
    /\ procs' = [procs EXCEPT ![p] = "compute"]
    /\ pidfile' = [pidfile EXCEPT !["compute"] = PidContent(p)]
    /\ last' = NoCall
    /\ UNCHANGED <<tasks_list, op, running, idx, elapsed, calls, err,
                   workspaceVars, extraVars>>

\* the externally written pid file is seen empty (created, not yet written)
\* or holding text that is no number
ExternalWritePidFile ==
  \E c \in {Empty, Malformed} :
    /\ pidfile' = [pidfile EXCEPT !["compute"] = c]
    /\ last' = NoCall
    /\ UNCHANGED <<tasks_list, procs, op, running, idx, elapsed, calls, err,
                   workspaceVars, extraVars>>

\* ------------------------------------------------------------------------
\* Command strings
\* ------------------------------------------------------------------------
\* A command string is the sequence of its space-separated words, and a word
\* is the sequence of its comma-separated parts: "-device ahci,id=sata0" is
\* << <<"-device">>, <<"ahci", "id=sata0">> >>, and "" is << <<"">> >>.
EmptyStr == << <<"">> >>

\* Body(value) and Body(v1, v2), each argument worked out once
Bind(value, Body(_)) == CHOOSE r \in {Body(v) : v \in {value}} : TRUE

Bind2(v1, v2, Body(_, _)) ==
  CHOOSE r \in {Body(x, y) : x \in {v1}, y \in {v2}} : TRUE

\* a string of one word with one part
Word(part) == << <<part>> >>

\* "<flag> <value>" where value is a string of one word
Flag(flag, value) == Word(flag) \o value

\* Python's None where a string is expected: as an option, as an attribute
NoOption == <<>>
PyNone == "None"

\* truth value of a str-or-None attribute
PyTruthyStr(a) == a # PyNone /\ a # ""

\* " ".join(list)
RECURSIVE JoinSpace(_)
JoinSpace(list) ==
  Bind(list, LAMBDA l :
    IF l = <<>> THEN EmptyStr
    ELSE IF Len(l) = 1 THEN l[1]
    ELSE l[1] \o JoinSpace(Tail(l)))

\* a + "," + b
CommaCat(a, b) ==
  Bind2(a, b, LAMBDA x, y :
    SubSeq(x, 1, Len(x) - 1) \o <<x[Len(x)] \o y[1]>> \o Tail(y))

\* ",".join(list)
RECURSIVE JoinComma(_)
JoinComma(list) ==
  Bind(list, LAMBDA l :
    IF l = <<>> THEN EmptyStr
    ELSE IF Len(l) = 1 THEN l[1]
    ELSE CommaCat(l[1], JoinComma(Tail(l))))

\* the words of a command string that follow the one-part word flag
ValuesOf(flag, str) ==
  {str[i + 1] : i \in {j \in 1..(Len(str) - 1) : str[j] = <<flag>>}}

\* how many times the one-part word flag occurs in a command string
CountFlag(flag, str) == Cardinality({j \in 1..Len(str) : str[j] = <<flag>>})

\* ------------------------------------------------------------------------
\* CElement: the option list of an element
\* ------------------------------------------------------------------------
AddOptionKeepsDuplicates(list, option) ==
  IF option = NoOption THEN list ELSE Append(list, option)

\* CElement.add_option
add_option(list, option) ==
  Bind2(list, option, LAMBDA l, o :
    IF o = NoOption THEN l
    ELSE IF \E i \in 1..Len(l) : l[i] = o
         THEN l                \* "Warning: option ... already added."
         ELSE Append(l, o))

\* add_option of each option of opts, in order
RECURSIVE add_options(_, _)
add_options(list, opts) ==
  Bind2(list, opts, LAMBDA l, o :
    IF o = <<>> THEN l
    ELSE add_options(add_option(l, Head(o)), Tail(o)))

\* CElement.get_option
get_option(list) ==
  Bind(list, LAMBDA l :
    IF Len(l) = 0
    THEN [raised |-> "Exception", value |-> NoOption]
    ELSE [raised |-> "none", value |-> JoinSpace(l)])

\* ------------------------------------------------------------------------
\* Node descriptors
\* ------------------------------------------------------------------------
\* CCompute.__init__ / CBMC.__init__: self.__port_qemu_ipmi = 9002
DefaultPortQemuIpmi == 9002

\* values a descriptor gives for bmc_connection_port
DescPorts == {9102, 9103}

\* port_qemu_ipmi found in a BMC config file the user supplies
UserConfigPorts == {9002, 9102}

BaseDescriptor == [type |-> "quanta_d51", compute |-> [cpu |-> "cpu"]]

\* CCompute.__init__ / CSocat.__init__: self.__port_serial = 9003
DefaultPortSerial == 9003

\* values a descriptor gives for serial_port and for sol_device
SerialPorts == {9103}
HOME == "/home/infrasim"
SolDevices == {HOME \o "/.infrasim/pty_test"}

\* descriptors that set the serial port, the SOL device, or both
EndpointDescriptors ==
  {[type |-> "quanta_d51", compute |-> [cpu |-> "cpu"], serial_port |-> p] :
      p \in SerialPorts}
  \cup {[type |-> "quanta_d51", compute |-> [cpu |-> "cpu"],
         sol_device |-> d] : d \in SolDevices}
  \cup {[type |-> "quanta_d51", compute |-> [cpu |-> "cpu"],
         serial_port |-> p, sol_device |-> d] :
          p \in SerialPorts, d \in SolDevices}

\* node types, and the files a descriptor may name in place of the type's
NodeTypes == {"quanta_d51", "dell_c6320"}
UserSmbios == "/etc/infrasim/user_smbios.bin"
UserEmuFile == "/etc/infrasim/user.emu"

\* descriptors that set the node type, with or without file overrides
TypeDescriptors ==
  {[type |-> t, compute |-> [cpu |-> "cpu"]] : t \in NodeTypes}
  \cup {[type |-> t, compute |-> [cpu |-> "cpu", smbios |-> UserSmbios]] :
          t \in NodeTypes}
  \cup {[type |-> t, compute |-> [cpu |-> "cpu"],
         bmc |-> [emu_file |-> UserEmuFile]] : t \in NodeTypes}

\* descriptors that set compute.kvm_enabled
KvmDescriptors ==
  {[type |-> "quanta_d51", compute |-> [cpu |-> "cpu", kvm_enabled |-> k]] :
      k \in BOOLEAN}

\* a descriptor is a dict: a key is present or not
Descriptors ==
  {BaseDescriptor}
  \cup {[type |-> "quanta_d51", compute |-> [cpu |-> "cpu"],
         bmc_connection_port |-> p] : p \in DescPorts}
  \cup {[type |-> "quanta_d51", compute |-> [cpu |-> "cpu"],
         bmc |-> [config_file |-> [how |-> "user", port_qemu_ipmi |-> q]]] :
          q \in UserConfigPorts}
  \cup {[type |-> "quanta_d51", compute |-> [cpu |-> "cpu"],
         bmc_connection_port |-> p,
         bmc |-> [config_file |-> [how |-> "user", port_qemu_ipmi |-> q]]] :
          p \in DescPorts, q \in UserConfigPorts}
  \cup EndpointDescriptors
  \cup TypeDescriptors
  \cup KvmDescriptors

\* has_option(dict, key) and has_option(dict, key, key) of the package
has_option(d, k) == k \in DOMAIN d

has_option2(d, k1, k2) == k1 \in DOMAIN d /\ k2 \in DOMAIN d[k1]

\* ------------------------------------------------------------------------
\* Workspace
\* ------------------------------------------------------------------------
NoFile == [how |-> "absent"]

NoWorkspace ==
  [exists |-> FALSE, data |-> FALSE, script |-> FALSE, scripts |-> FALSE,
   yml |-> NoFile, vbmc |-> NoFile, emu |-> FALSE, smbios |-> FALSE]

\* which packaged asset under /usr/local/etc/infrasim is missing on the host
MissingAssets == {"none", "templates", "emu", "smbios"}

\* CBMC.write_bmc_config: the template rendered with port_qemu_ipmi
write_bmc_config(port) == [how |-> "rendered", port_qemu_ipmi |-> port]

\* the port the CBMC object holds after the "Render connection port" setters
BmcPortQemuIpmi(node) ==
  IF has_option(node, "bmc_connection_port")
  THEN node.bmc_connection_port ELSE DefaultPortQemuIpmi

\* CNode.init_workspace, steps IV to VII on the fresh directory w1
MaterializeWorkspace(node, w1, missing) ==
  LET w4 == [w1 EXCEPT !.yml = node]
      copied == has_option2(node, "bmc", "config_file")
      w5 == IF copied
            THEN [w4 EXCEPT !.vbmc = node.bmc.config_file]
            ELSE [w4 EXCEPT !.scripts = TRUE,
                            !.vbmc = write_bmc_config(BmcPortQemuIpmi(node))]
      w6 == [w5 EXCEPT !.emu = TRUE]
      w7 == [w6 EXCEPT !.smbios = TRUE]
  IN IF ~copied /\ missing = "templates"
     THEN [ws |-> w4, raised |-> "IOError"]
     ELSE IF missing = "emu" THEN [ws |-> w5, raised |-> "IOError"]
     ELSE IF missing = "smbios" THEN [ws |-> w6, raised |-> "IOError"]
     ELSE [ws |-> w7, raised |-> "none"]

InitWorkspaceOverwrites(node, w, missing) ==
  MaterializeWorkspace(node,
    [NoWorkspace EXCEPT !.exists = TRUE, !.data = TRUE, !.script = TRUE],
    missing)

\* CNode.init_workspace
init_workspace(node, w, missing) ==
  IF w.exists
  THEN [ws |-> w, raised |-> "none"]     \* "just do nothing and return"
  ELSE MaterializeWorkspace(node,
         [NoWorkspace EXCEPT !.exists = TRUE, !.data = TRUE, !.script = TRUE],
         missing)

\* CIPMI.handle_parms: "-chardev socket,id=ipmi0,host=<h>,port=<p>,reconnect=10"
chardev_option(host, port) ==
  [backend |-> "socket", id |-> "ipmi0", host |-> host, port |-> port,
   reconnect |-> 10]

\* the port CNode.init leaves in the compute task before CCompute.init
ComputePortQemuIpmi(node) ==
  IF "bmc_connection_port" \in DOMAIN node
  THEN node.bmc_connection_port ELSE DefaultPortQemuIpmi

\* ------------------------------------------------------------------------
\* The three tasks after CNode.init: setters, set_workspace, init
\* ------------------------------------------------------------------------
\* the workspace path of a node whose descriptor gives no name
Workspace == HOME \o "/.infrasim/node-0"

\* the "if self.__sol_device: pass / elif workspace / else" of CSocat.init
\* and of CBMC.init
SolDeviceOrDefault(sol_device, workspace) ==
  IF sol_device # "" THEN sol_device
  ELSE IF workspace # "" THEN workspace \o "/.pty0"
  ELSE "/etc/infrasim/pty0"

CSocatInitBeforeSetters(node, workspace) ==
  [bin |-> PyNone, port_serial |-> DefaultPortSerial,
   sol_device |-> SolDeviceOrDefault("", workspace)]

\* the CSocat object: __init__, the setters CNode.init applies, then init
CSocatInit(node, workspace) ==
  [bin |-> PyNone,
   port_serial |-> IF "serial_port" \in DOMAIN node
                   THEN node.serial_port ELSE DefaultPortSerial,
   sol_device |-> SolDeviceOrDefault(
                    IF "sol_device" \in DOMAIN node
                    THEN node.sol_device ELSE "", workspace)]

\* CSocat.get_commandline
SocatCommandline(socat) ==
  Word(socat.bin)
  \o << <<"pty", "link=" \o socat.sol_device, "waitslave">> >>
  \o << <<"udp-listen:" \o ToString(socat.port_serial), "reuseaddr">> >>

\* the CBMC object: __init__, the setters CNode.init applies, then init
CBMCInit(node, workspace) ==
  LET bmc == IF "bmc" \in DOMAIN node THEN node.bmc
             ELSE [k \in {} |-> ""]         \* self.__node.get('bmc', {})
  IN [bin |-> PyNone,
      vendor_type |-> node.type,
      port_qemu_ipmi |-> BmcPortQemuIpmi(node),
      emu_file |-> IF "emu_file" \in DOMAIN bmc THEN bmc.emu_file
                   ELSE IF workspace # ""
                        THEN workspace \o "/data/" \o node.type \o ".emu"
                        ELSE "/usr/local/etc/infrasim/" \o node.type \o "/"
                             \o node.type \o ".emu",
      config_file |-> IF "config_file" \in DOMAIN bmc THEN "user:vbmc.conf"
                      ELSE IF workspace # ""
                           THEN workspace \o "/data/vbmc.conf"
                           ELSE "/etc/infrasim/vbmc.conf",
      sol_device |-> SolDeviceOrDefault(
                       IF "sol_device" \in DOMAIN node
                       THEN node.sol_device ELSE "", workspace)]

\* CBMC.get_commandline
BmcCommandline(bmc) ==
  Word(bmc.bin) \o Word("-c") \o Word(bmc.config_file) \o Word("-f")
  \o Word(bmc.emu_file) \o Word("-n") \o Word("-s") \o Word("/var/tmp")

\* CCompute.__enable_kvm after CCompute.init on a host where /dev/kvm
\* exists or not
CComputeEnableKvm(compute_info, dev_kvm) ==
  IF "kvm_enabled" \in DOMAIN compute_info
  THEN IF compute_info.kvm_enabled THEN dev_kvm ELSE FALSE
  ELSE TRUE                     \* self.__enable_kvm = True of __init__

\* the node-wise attributes of the CCompute object: __init__, the setters
\* CNode.init applies, then the part of init before the elements
CComputeInit(node, workspace, dev_kvm) ==
  LET compute_info == node.compute
  IN [task_name |-> "node-0-node",
      vendor_type |-> node.type,
      port_qemu_ipmi |-> ComputePortQemuIpmi(node),
      port_serial |-> IF "serial_port" \in DOMAIN node
                      THEN node.serial_port ELSE DefaultPortSerial,
      enable_kvm |-> CComputeEnableKvm(compute_info, dev_kvm),
      smbios |-> IF "smbios" \in DOMAIN compute_info
                 THEN compute_info.smbios
                 ELSE IF workspace # ""
                      THEN workspace \o "/data/" \o node.type
                           \o "_smbios.bin"
                      ELSE "/usr/local/etc/infrasim/" \o node.type \o "/"
                           \o node.type \o "_smbios.bin",
      bios |-> IF "bios" \in DOMAIN compute_info
               THEN compute_info.bios ELSE PyNone,
      boot_order |-> IF "boot_order" \in DOMAIN compute_info
                     THEN compute_info.boot_order ELSE "ncd",
      cdrom_file |-> IF "cdrom" \in DOMAIN compute_info
                     THEN compute_info.cdrom ELSE PyNone]

\* the options CCompute.handle_parms adds for the compute task itself,
\* before it calls handle_parms of its elements
ComputeOwnOptions(c, uuid) ==
  << Flag("-vnc", Word(":1")),
     Flag("-name", Word(c.task_name)),
     Flag("-device", Word("sga")),
     IF c.enable_kvm THEN Word("--enable-kvm") ELSE NoOption,
     IF PyTruthyStr(c.smbios)
     THEN Flag("-smbios", Word("file=" \o c.smbios)) ELSE NoOption,
     IF PyTruthyStr(c.bios) THEN Flag("-bios", Word(c.bios)) ELSE NoOption,
     IF PyTruthyStr(c.boot_order)
     THEN Flag("-boot", Word(c.boot_order)) ELSE NoOption,
     Flag("-machine", << <<"q35", "usb=off", "vmport=off">> >>),
     IF PyTruthyStr(c.cdrom_file)
     THEN Flag("-cdrom", Word(c.cdrom_file)) ELSE NoOption,
     Flag("-chardev", << <<"socket", "id=mon", "host=127.0.0.1",
                           "port=2345", "server", "nowait">> >>)
       \o EmptyStr,
     Flag("-mon", << <<"chardev=mon", "id=monitor">> >>),
     IF c.port_serial # 0
     THEN Flag("-serial", << <<"mon:udp:127.0.0.1:"
                                 \o ToString(c.port_serial), "nowait">> >>)
     ELSE NoOption,
     Flag("-uuid", Word(uuid)) >>

NoNode == [inited |-> FALSE]

\* CNode(node).init() on the workspace w
CNodeInit(node, w, missing, dev_kvm) ==
  LET iw == init_workspace(node, w, missing)
  IN IF iw.raised # "none"
     THEN [ws |-> iw.ws, raised |-> iw.raised, tasks |-> <<>>,
           cnode |-> NoNode]
     ELSE [ws |-> iw.ws, raised |-> "none", tasks |-> InitTasksList,
           cnode |-> [inited |-> TRUE,
                      chardev |->
                        chardev_option("127.0.0.1", ComputePortQemuIpmi(node)),
                      bmc_port_qemu_ipmi |-> BmcPortQemuIpmi(node),
                      socat |-> CSocatInit(node, Workspace),
                      bmc |-> CBMCInit(node, Workspace),
                      compute |-> CComputeInit(node, Workspace, dev_kvm)]]

NoInit == [called |-> FALSE]

\* a new CNode object is built from a descriptor and init is called on it
NodeInit ==
  \E node \in Descriptors, missing \in MissingAssets, dev_kvm \in BOOLEAN :
    LET r == CNodeInit(node, ws, missing, dev_kvm)
    IN /\ ~running
       /\ ws' = r.ws
       /\ cnode' = r.cnode
       /\ tasks_list' = r.tasks
       /\ lastInit' = [called |-> TRUE, node |-> node, pre |-> ws,
                       dev_kvm |-> dev_kvm, raised |-> r.raised]
       /\ UNCHANGED <<supervisorVars, extraVars>>

\* CNode.terminate_workspace: rm -rf of the workspace, pid files included
TerminateWorkspace ==
  /\ ~running
  /\ ws.exists
  /\ ws' = NoWorkspace
  /\ pidfile' = [t \in Tasks |-> Absent]
  /\ lastInit' = NoInit
  /\ UNCHANGED <<tasks_list, cnode, procs, op, running, idx, elapsed, calls,
                 err, last, extraVars>>

\* ------------------------------------------------------------------------
\* Specifications
\* ------------------------------------------------------------------------
\* ------------------------------------------------------------------------
\* The elements of the compute task: CCPU, CMemory, CDrive
\* ------------------------------------------------------------------------
\* the members of a list of strings that are not None
RECURSIVE Compact(_)
Compact(list) ==
  Bind(list, LAMBDA l :
    IF l = <<>> THEN <<>>
    ELSE IF Head(l) = NoOption THEN Compact(Tail(l))
    ELSE <<Head(l)>> \o Compact(Tail(l)))

\* "<key>{}".format(value) when the attribute is truthy, else nothing
Part(key, value) == IF PyTruthyStr(value) THEN Word(key \o value) ELSE NoOption

\* dict.get(key, default)
Get(dict, key, default) == IF key \in DOMAIN dict THEN dict[key] ELSE default

\* CCPU.__init__ and CCPU.init
CCPUInit(cpu_info) ==
  [type |-> Get(cpu_info, "type", "host"),
   features |-> Get(cpu_info, "features", "+vmx"),
   quantities |-> Get(cpu_info, "quantities", 2),
   socket |-> 2,                \* socket_in_smbios is None
   option_list |-> <<>>]

\* CCPU.precheck: the exception it raises
CCPUPrecheck(cpu) ==
  IF cpu.quantities <= 0 THEN "ArgsNotCorrect"
  ELSE IF cpu.quantities % cpu.socket # 0 THEN "ArgsNotCorrect"
  ELSE "none"

SmpCoresAsQuantities(cpu) == cpu.quantities

\* cores = self.__quantities / self.__socket, on Python 2 integers
SmpCores(cpu) == cpu.quantities \div cpu.socket

\* CCPU.handle_parms
CCPUHandleParms(cpu) ==
  LET cpu_option ==
        IF cpu.features # ""
        THEN Flag("-cpu", << <<cpu.type, cpu.features>> >>)
        ELSE Flag("-cpu", Word(cpu.type))
      smp_option ==
        Flag("-smp", << <<ToString(cpu.quantities),
                          "sockets=" \o ToString(cpu.socket),
                          "cores=" \o ToString(SmpCores(cpu)),
                          "threads=1">> >>)
  IN [cpu EXCEPT
        !.option_list = add_option(add_option(@, cpu_option), smp_option)]

\* CMemory.__init__ and CMemory.init, for a descriptor that gives the size
CMemoryInit(memory_info) ==
  [memory_size |-> memory_info.size, option_list |-> <<>>]

\* CMemory.handle_parms
CMemoryHandleParms(memory) ==
  LET memory_option == Flag("-m", Word(ToString(memory.memory_size)))
  IN [memory EXCEPT !.option_list = add_option(@, memory_option)]

\* chr(97 + index)
Letters ==
  <<"a", "b", "c", "d", "e", "f", "g", "h", "i", "j", "k", "l", "m",
    "n", "o", "p", "q", "r", "s", "t", "u", "v", "w", "x", "y", "z">>

\* files a descriptor names that start with "/dev/"
BlockDevices == {"/dev/sdb"}

\* CDrive.__init__, the setters of CStorageController.init, CDrive.init
CDriveInit(drive_info, index, controller_type, bus_address) ==
  LET megasas == controller_type \in {"megasas", "megasas-gen2"}
      model0 == IF controller_type = "ahci"
                THEN Get(drive_info, "model", PyNone) ELSE PyNone
  IN [index |-> index,
      controller_type |-> controller_type,
      bus_address |-> bus_address,
      bootindex |-> Get(drive_info, "bootindex", PyNone),
      vendor |-> IF megasas THEN Get(drive_info, "vendor", PyNone)
                 ELSE PyNone,
      serial |-> Get(drive_info, "serial", PyNone),
      model |-> Get(drive_info, "model", model0),
      product |-> Get(drive_info, "product", PyNone),
      version |-> Get(drive_info, "version", PyNone),
      rotation |-> Get(drive_info, "rotation", PyNone),
      format |-> IF "file" \in DOMAIN drive_info
                    /\ drive_info.file \in BlockDevices
                 THEN "raw" ELSE Get(drive_info, "format", "qcow2"),
      cache |-> Get(drive_info, "cache", "writeback"),
      aio |-> Get(drive_info, "aio", PyNone),
      size |-> Get(drive_info, "size", 8),
      file |-> IF "file" \in DOMAIN drive_info THEN drive_info.file
               ELSE HOME \o "/.infrasim/sd" \o Letters[index + 1] \o ".img",
      option_list |-> <<>>]

\* CDrive.handle_parms
CDriveHandleParms(drive) ==
  LET host_option ==
        JoinComma(Compact(
          << Word("file=" \o drive.file),
             Part("format=", drive.format),
             Word("if=none"),
             Word("id=drive" \o ToString(drive.index)),
             Part("cache=", drive.cache),
             IF PyTruthyStr(drive.aio) /\ drive.cache = "none"
             THEN Word("aio=" \o drive.aio) ELSE NoOption >>))
      device_option ==
        JoinComma(Compact(
          << IF drive.controller_type = "ahci" THEN Word("ide-hd")
             ELSE IF drive.controller_type
                       \in {"megasas", "megasas-gen2", "lsi"}
                  THEN Word("scsi-hd") ELSE Word("ide-hd"),
             Part("vendor=", drive.vendor),
             Part("model=", drive.model),
             Part("product=", drive.product),
             Part("serial=", drive.serial),
             Part("ver=", drive.version),
             Part("bootindex=", drive.bootindex),
             IF drive.rotation # PyNone
             THEN Word("rotation=" \o drive.rotation) ELSE NoOption,
             Part("bus=", drive.bus_address),
             Word("drive=drive" \o ToString(drive.index)) >>))
      drive_option ==
        JoinSpace(<<Word("-drive"), host_option,
                    Word("-device"), device_option>>)
  IN [drive EXCEPT !.option_list = add_option(@, drive_option)]

\* ------------------------------------------------------------------------
\* CStorageController and CBackendStorage
\* ------------------------------------------------------------------------
\* "sata" for an AHCI controller, "scsi" for any other
BusPrefix(controller_type) ==
  IF controller_type = "ahci" THEN "sata" ELSE "scsi"

\* controller_index when the drive of index drive_index gets its bus: the
\* loop has added 1 for each drive so far whose index exceeds max - 1
ControllerIndexOf(drive_index, max_drive_per_controller) ==
  Cardinality({j \in 0..drive_index : j > max_drive_per_controller - 1})

\* CStorageController.__init__ and CStorageController.init
CStorageControllerInit(controller_info) ==
  LET c == controller_info.controller
      prefix == BusPrefix(c.type)
      bus(k) == prefix
                \o ToString(ControllerIndexOf(k, c.max_drive_per_controller))
                \o "." \o ToString(IF c.type = "ahci" THEN k ELSE 0)
  IN [max_drive_per_controller |-> c.max_drive_per_controller,
      controller_type |-> c.type,
      use_jbod |-> IF "use_jbod" \in DOMAIN c
                      /\ c.type \in {"megasas", "megasas-gen2"}
                   THEN c.use_jbod ELSE PyNone,
      drive_list |-> [i \in 1..Len(c.drives) |->
                        CDriveInit(c.drives[i], i - 1, c.type, bus(i - 1))],
      option_list |-> <<>>]

\* int(math.ceil(float(drive_quantities) / max_drive_per_controller))
ControllerQuantities(drive_quantities, max_drive_per_controller) ==
  (drive_quantities + max_drive_per_controller - 1)
    \div max_drive_per_controller

\* the "for controller_index in range(0, controller_quantities)" loop of
\* handle_params from controller_index on: controller_option_list is the
\* list built so far, opts the controller's option list
RECURSIVE ControllerLoop(_, _, _, _)
ControllerLoop(ctrl, controller_index, controller_option_list, opts) ==
  IF controller_index >= ControllerQuantities(Len(ctrl.drive_list),
                                              ctrl.max_drive_per_controller)
  THEN opts
  ELSE Bind2(
         controller_option_list
         \o <<Flag("-device", Word(ctrl.controller_type)),
              Word("id=" \o BusPrefix(ctrl.controller_type)
                   \o ToString(controller_index))>>
         \o (IF ctrl.use_jbod # PyNone
             THEN <<Word("use_jbod=" \o ctrl.use_jbod)>> ELSE <<>>),
         opts,
         LAMBDA list, o :
           ControllerLoop(ctrl, controller_index + 1, list,
                          add_option(o, JoinComma(list))))

\* CStorageController.handle_params
CStorageControllerHandleParams(ctrl) ==
  Bind([i \in 1..Len(ctrl.drive_list) |->
          CDriveHandleParms(ctrl.drive_list[i])],
       LAMBDA drives :
         [ctrl EXCEPT
            !.drive_list = drives,
            !.option_list =
               add_options(ControllerLoop(ctrl, 0, <<>>, ctrl.option_list),
                           [i \in 1..Len(drives) |->
                              get_option(drives[i].option_list).value])])

\* CBackendStorage.__init__ and CBackendStorage.init
CBackendStorageInit(backend_storage_info) ==
  [controller_list |-> [i \in 1..Len(backend_storage_info) |->
                          CStorageControllerInit(backend_storage_info[i])],
   option_list |-> <<>>]

\* CBackendStorage.handle_parms
CBackendStorageHandleParms(storage) ==
  Bind([i \in 1..Len(storage.controller_list) |->
          CStorageControllerHandleParams(storage.controller_list[i])],
       LAMBDA ctrls :
         [storage EXCEPT
            !.controller_list = ctrls,
            !.option_list =
               add_options(@, [i \in 1..Len(ctrls) |->
                                 get_option(ctrls[i].option_list).value])])

\* ------------------------------------------------------------------------
\* CNetwork, CBackendNetwork, CIPMI
\* ------------------------------------------------------------------------
\* CNetwork.__init__, set_index and CNetwork.init
CNetworkInit(network_info, index) ==
  [network_mode |-> Get(network_info, "network_mode", "nat"),
   bridge_name |-> Get(network_info, "network_name", PyNone),
   nic_name |-> Get(network_info, "device", PyNone),
   mac_address |-> Get(network_info, "mac", PyNone),
   index |-> index,
   option_list |-> <<>>]

\* CNetwork.handle_parms for the modes "nat" and "bridge"; mac_tail is
\* the last six digits of the uuid4 drawn when no MAC address is set
CNetworkHandleParms(network, mac_tail) ==
  LET mac_address == IF network.mac_address = PyNone
                     THEN "52:54:BE:" \o mac_tail ELSE network.mac_address
      bridge_name == IF network.network_mode = "bridge"
                        /\ network.bridge_name = PyNone
                     THEN "br0" ELSE network.bridge_name
      netdev_option ==
        << <<"bridge", "id=netdev" \o ToString(network.index),
             "br=" \o bridge_name,
             "helper=/usr/libexec/qemu-bridge-helper">> >>
      nic_option ==
        << <<network.nic_name, "netdev=netdev" \o ToString(network.index),
             "mac=" \o mac_address>> >>
      network_option ==
        IF network.network_mode = "bridge"
        THEN JoinSpace(<<Flag("-netdev", netdev_option),
                         Flag("-device", nic_option)>>)
        ELSE Word("-net") \o Word("user") \o Word("-net") \o Word("nic")
  IN [network EXCEPT !.mac_address = mac_address,
                     !.bridge_name = bridge_name,
                     !.option_list = add_option(@, network_option)]

\* CBackendNetwork.__init__ and CBackendNetwork.init
CBackendNetworkInit(network_info_list) ==
  [network_list |-> [i \in 1..Len(network_info_list) |->
                       CNetworkInit(network_info_list[i], i - 1)],
   option_list |-> <<>>]

\* CBackendNetwork.handle_parms; mac_tails[i] is drawn for the i-th NIC
CBackendNetworkHandleParms(backend, mac_tails) ==
  Bind([i \in 1..Len(backend.network_list) |->
          CNetworkHandleParms(backend.network_list[i], mac_tails[i])],
       LAMBDA nets :
         [backend EXCEPT
            !.network_list = nets,
            !.option_list =
               add_options(@, [i \in 1..Len(nets) |->
                                 get_option(nets[i].option_list).value])])

\* CIPMI.__init__ and CIPMI.init
CIPMIInit(ipmi_info) ==
  [interface |-> ipmi_info.interface,
   host |-> ipmi_info.host,
   bmc_connection_port |-> ipmi_info.bmc_connection_port,
   option_list |-> <<>>]

\* CIPMI.handle_parms
CIPMIHandleParms(ipmi) ==
  LET chardev ==
        << <<"socket", "id=ipmi0", "host=" \o ipmi.host,
             "port=" \o ToString(ipmi.bmc_connection_port),
             "reconnect=10">> >>
      bmc_option == << <<"ipmi-bmc-extern", "chardev=ipmi0", "id=bmc0">> >>
      interface_option == << <<"isa-ipmi-kcs", "bmc=bmc0">> >>
      ipmi_option ==
        JoinSpace(<<Flag("-chardev", chardev), Flag("-device", bmc_option),
                    Flag("-device", interface_option)>>)
  IN [ipmi EXCEPT !.option_list = add_option(@, ipmi_option)]

\* no CCompute object, no call on it, no NumaCtl object, no call on it
NoCompute == [inited |-> FALSE]
NoCmd == [op |-> "none"]
NoNuma == [inited |-> FALSE]
NoTake == [called |-> FALSE]

\* ------------------------------------------------------------------------
\* NumaCtl
\* ------------------------------------------------------------------------
\* NumaCtl.__init__ on a host whose "numactl --show" prints the lines
\* physcpubind and nodebind and whose "numactl --hardware" prints
\* "node <n> cpus:" with hardware[n]
NumaCtlInit(host) ==
  [inited |-> TRUE,
   cpu_list |-> host.physcpubind,
   node_list |-> host.nodebind,
   numactl_table |->
     [n \in {host.nodebind[i] : i \in 1..Len(host.nodebind)} |->
        IF n \in DOMAIN host.hardware THEN host.hardware[n] ELSE <<>>]]

\* [list.pop() for _ in range(0, num)] and what it leaves of the list
PopN(list, num) ==
  [value |-> [k \in 1..num |-> list[Len(list) + 1 - k]],
   rest |-> SubSeq(list, 1, Len(list) - num)]

\* the second loop of get_cpu_list from the i-th node of node_list on
RECURSIVE Drain(_, _, _, _)
Drain(numa, num, i, returned_cpu_list) ==
  IF i > Len(numa.node_list)
  THEN [numactl |-> numa, value |-> returned_cpu_list]
  ELSE LET node == numa.node_list[i]
           avail == numa.numactl_table[node]
           want == num - Len(returned_cpu_list)
           popped == PopN(avail, IF Len(avail) < want THEN Len(avail)
                                 ELSE want)
           numa2 == [numa EXCEPT !.numactl_table[node] = popped.rest]
           returned2 == returned_cpu_list \o popped.value
       IN IF Len(avail) > 0 /\ Len(returned2) = num
          THEN [numactl |-> numa2, value |-> returned2]
          ELSE Drain(numa2, num, i + 1, returned2)

GetCpuListAlwaysDrains(numa, num) == Drain(numa, num, 1, <<>>)

GetCpuListKeepsPool(numa, num) ==
  [numactl |-> numa, value |-> Drain(numa, num, 1, <<>>).value]

\* NumaCtl.get_cpu_list
get_cpu_list(numa, num) ==
  LET fits == {i \in 1..Len(numa.node_list) :
                 Len(numa.numactl_table[numa.node_list[i]]) >= num}
  IN IF fits # {}
     THEN LET first == CHOOSE i \in fits : \A j \in fits : i <= j
              node == numa.node_list[first]
              popped == PopN(numa.numactl_table[node], num)
          IN [numactl |-> [numa EXCEPT !.numactl_table[node] = popped.rest],
              value |-> popped.value]
     ELSE Drain(numa, num, 1, <<>>)

\* ------------------------------------------------------------------------
\* CCompute: the element tree, handle_parms, get_commandline
\* ------------------------------------------------------------------------
\* CCompute(compute_info) with the node-wise attributes attrs, then the
\* part of CCompute.init that builds and inits the elements
\* on a host where /usr/bin/numactl exists or not and prints host
CComputeElementsInit(compute_info, attrs, numactl_found, host) ==
  LET ipmi == Get(compute_info, "ipmi", [k \in {} |-> ""])
  IN [inited |-> TRUE,
      attrs |-> attrs,
      numactl_obj |-> IF /\ "numa_control" \in DOMAIN compute_info
                         /\ compute_info.numa_control
                         /\ numactl_found
                      THEN NumaCtlInit(host) ELSE NoNuma,
      option_list |-> <<>>,
      cpu |-> CCPUInit(compute_info.cpu),
      memory |-> CMemoryInit(compute_info.memory),
      storage |-> CBackendStorageInit(compute_info.storage_backend),
      network |-> CBackendNetworkInit(compute_info.networks),
      ipmi |-> CIPMIInit([interface |-> Get(ipmi, "interface", "kcs"),
                          host |-> Get(ipmi, "host", "127.0.0.1"),
                          bmc_connection_port |-> attrs.port_qemu_ipmi])]

\* CCompute.handle_parms
CComputeHandleParms(c, uuid, mac_tails) ==
  [c EXCEPT
     !.option_list = add_options(@, ComputeOwnOptions(c.attrs, uuid)),
     !.cpu = CCPUHandleParms(@),
     !.memory = CMemoryHandleParms(@),
     !.storage = CBackendStorageHandleParms(@),
     !.network = CBackendNetworkHandleParms(@, mac_tails),
     !.ipmi = CIPMIHandleParms(@)]

\* CCompute.get_commandline: the object it leaves and the string it returns
CComputeGetCommandline(c, uuid, mac_tails) ==
  Bind(CComputeHandleParms(c, uuid, mac_tails), LAMBDA c1 :
    LET q0 == EmptyStr
        q1 == JoinSpace(<<get_option(c1.cpu.option_list).value, q0>>)
        q2 == JoinSpace(<<get_option(c1.memory.option_list).value, q1>>)
        q3 == JoinSpace(<<get_option(c1.storage.option_list).value, q2>>)
        q4 == JoinSpace(<<get_option(c1.network.option_list).value, q3>>)
        q5 == JoinSpace(<<get_option(c1.ipmi.option_list).value, q4>>)
        qemu_commandline ==
          JoinSpace(<<Word("qemu-system-x86_64"),
                      get_option(c1.option_list).value, q5>>)
    IN IF c1.numactl_obj = NoNuma
       THEN [obj |-> c1, value |-> qemu_commandline]
       ELSE Bind(get_cpu_list(c1.numactl_obj, c1.cpu.quantities),
                 LAMBDA taken :
         LET ids == taken.value
             \* 'numactl --physcpubind={} --localalloc'
             \*    .format(','.join(bind_cpu_list))
             numactl_option ==
               Word("numactl")
               \o << <<"--physcpubind=" \o ToString(ids[1])>>
                     \o [i \in 1..(Len(ids) - 1) |-> ToString(ids[i + 1])] >>
               \o Word("--localalloc")
         IN [obj |-> [c1 EXCEPT !.numactl_obj = taken.numactl],
             value |-> IF Len(ids) > 0
                       THEN JoinSpace(<<numactl_option, qemu_commandline>>)
                       ELSE qemu_commandline]))

\* ------------------------------------------------------------------------
\* One CCompute object: init, precheck, get_commandline
\* ------------------------------------------------------------------------
\* max_drive_per_controller is in 1..MaxPerController, a controller has
\* 1..MaxDrives drives, cpu.quantities is in -1..MaxQuantities,
\* get_commandline is called at most MaxGets times on one object, and
\* networks lists 1..MaxNics NICs
MaxPerController == 2
MaxDrives == 4
MaxQuantities == 4
MaxGets == 2
MaxNics == 2

\* a drive descriptor as in test_set_disk_drive
DriveInfos == {[size |-> 8]}

ControllerTypes == {"ahci", "megasas"}

ControllerInfos ==
  {[controller |-> [type |-> t, max_drive_per_controller |-> m,
                    drives |-> [i \in 1..n |-> d]]] :
     t \in ControllerTypes, m \in 1..MaxPerController, n \in 1..MaxDrives,
     d \in DriveInfos}

\* storage_backend: one controller descriptor, or two
StorageBackends ==
  {<<c>> : c \in ControllerInfos}
  \cup {<<c1, c2>> : c1 \in ControllerInfos, c2 \in ControllerInfos}

\* storage_backend with one controller of one drive whose descriptor gives
\* the key model, the key vendor, or both
KeyedDriveInfos ==
  {[size |-> 8, model |-> "SATADOM"], [size |-> 8, vendor |-> "Hitachi"],
   [size |-> 8, model |-> "SATADOM", vendor |-> "Hitachi"]}

KeyedStorageBackends ==
  {<< [controller |-> [type |-> t, max_drive_per_controller |-> 6,
                       drives |-> <<d>>]] >> :
     t \in {"ahci", "megasas", "megasas-gen2"}, d \in KeyedDriveInfos}

\* the storage_backend of test_set_disk_drive
DefaultStorage ==
  << [controller |-> [type |-> "ahci", max_drive_per_controller |-> 6,
                      drives |-> <<[size |-> 8], [size |-> 8]>>]] >>

DefaultNetworks == << [network_mode |-> "nat"] >>

\* networks: NICs in nat mode and NICs on the bridge br0
NicInfos ==
  {[network_mode |-> "nat"],
   [network_mode |-> "bridge", network_name |-> "br0", device |-> "e1000"]}

NetworkLists == UNION {[1..n -> NicInfos] : n \in 1..MaxNics}

\* compute descriptors: the CPU quantity varies, or is absent, or the
\* storage backend varies
ComputeInfos ==
  {[cpu |-> [quantities |-> q], memory |-> [size |-> 1024],
    storage_backend |-> DefaultStorage, networks |-> DefaultNetworks] :
     q \in -1..MaxQuantities}
  \cup {[cpu |-> [type |-> "IvyBridge"], memory |-> [size |-> 1024],
         storage_backend |-> DefaultStorage, networks |-> DefaultNetworks]}
  \cup {[cpu |-> [quantities |-> 2], memory |-> [size |-> 1024],
         storage_backend |-> sb, networks |-> DefaultNetworks] :
          sb \in StorageBackends \cup KeyedStorageBackends}
  \cup {[cpu |-> [quantities |-> 2], memory |-> [size |-> 1024],
         storage_backend |-> DefaultStorage, networks |-> DefaultNetworks,
         numa_control |-> nc] : nc \in BOOLEAN}
  \cup {[cpu |-> [quantities |-> 2], memory |-> [size |-> 1024],
         storage_backend |-> DefaultStorage, networks |-> nl] :
          nl \in NetworkLists}

\* the host of the compute task: the CPUs 0 and 1 on node 0, 2 and 3 on
\* node 1, the process bound to both nodes
ComputeHost ==
  [nodebind |-> <<0, 1>>, physcpubind |-> <<0, 1, 2, 3>>,
   hardware |-> [n \in {0, 1} |-> IF n = 0 THEN <<0, 1>> ELSE <<2, 3>>]]

\* values of uuid.uuid4(), and of the last six digits of one
Uuids == {"uuid-1", "uuid-2"}
MacTails == {"aa:bb:cc"}

\* compute_obj = CCompute(compute_info), the setters of CNode.init for a
\* descriptor with no node-wise key, set_workspace, compute_obj.init()
ComputeInit ==
  \E compute_info \in ComputeInfos, dev_kvm \in BOOLEAN,
     numactl_found \in BOOLEAN :
    LET node == [type |-> "quanta_d51", compute |-> compute_info]
    IN /\ compute_obj = NoCompute
       /\ compute_obj' =
            [obj |-> CComputeElementsInit(
                       compute_info, CComputeInit(node, Workspace, dev_kvm),
                       numactl_found, ComputeHost),
             inited |-> TRUE, info |-> compute_info, gets |-> 0]
       /\ cmdline' = [op |-> "init"]
       /\ UNCHANGED <<tasks_list, supervisorVars, workspaceVars, elementVars,
                      numaVars>>

\* compute_obj.precheck() on a host where qemu is found or not and the
\* SMBIOS file exists or not; the elements after the CPU check nothing
ComputePrecheck ==
  \E qemu_found \in BOOLEAN, smbios_isfile \in BOOLEAN :
    /\ compute_obj.inited
    /\ cmdline' =
         [op |-> "precheck",
          raised |-> IF ~qemu_found THEN "CommandNotFound"
                     ELSE IF ~smbios_isfile THEN "ArgsNotCorrect"
                     ELSE CCPUPrecheck(compute_obj.obj.cpu),
          by |-> IF ~qemu_found \/ ~smbios_isfile THEN "compute"
                 ELSE "cpu"]
    /\ UNCHANGED <<tasks_list, supervisorVars, workspaceVars, elementVars,
                   numaVars, compute_obj>>

\* compute_obj.get_commandline()
GetCommandline ==
  /\ compute_obj.inited
  /\ compute_obj.gets < MaxGets
  /\ \E uuid \in Uuids,
        mac_tails \in [1..Len(compute_obj.info.networks) -> MacTails] :
       LET r == CComputeGetCommandline(compute_obj.obj, uuid, mac_tails)
       IN /\ compute_obj' = [compute_obj EXCEPT !.obj = r.obj,
                                                !.gets = @ + 1]
          /\ cmdline' = [op |-> "get_commandline", value |-> r.value]
  /\ UNCHANGED <<tasks_list, supervisorVars, workspaceVars, elementVars,
                 numaVars>>

\* ------------------------------------------------------------------------
\* One NumaCtl object: __init__, then get_cpu_list calls
\* ------------------------------------------------------------------------
\* the host has the CPUs 0..MaxCpuId on the nodes 0 and 1, and a call asks
\* for 0..MaxTake CPUs
MaxCpuId == 3
MaxTake == 3

NumaNodes == {0, 1}

\* the members of a set of numbers in ascending order, as numactl prints
RECURSIVE Ascending(_)
Ascending(S) ==
  IF S = {} THEN <<>>
  ELSE LET m == CHOOSE x \in S : \A y \in S : x <= y
       IN <<m>> \o Ascending(S \ {m})

\* the CPUs of the nodes B when on[c] is the node of the CPU c
CpusOn(on, B) == {c \in 0..MaxCpuId : on[c] \in B}

\* what "numactl --show" and "numactl --hardware" print: each CPU is on
\* one node, the process is bound to one node or more and allowed on CPUs
\* of theirs, all of them or fewer (taskset, cpuset)
HostNumas ==
  UNION
    {{[nodebind |-> Ascending(B),
       physcpubind |-> Ascending(allowed),
       hardware |-> [n \in NumaNodes |-> Ascending(CpusOn(on, {n}))]] :
        allowed \in {a \in SUBSET CpusOn(on, B) :
                       a # {} \/ CpusOn(on, B) = {}}} :
       on \in [0..MaxCpuId -> NumaNodes], B \in (SUBSET NumaNodes) \ {{}}}

\* numactl = NumaCtl()
NumaNew ==
  \E host \in HostNumas :
    /\ numactl = NoNuma
    /\ numactl' = NumaCtlInit(host)
    /\ lastTake' = NoTake
    /\ UNCHANGED <<tasks_list, supervisorVars, workspaceVars, elementVars,
                   computeVars>>

\* the CPU ids in a list
Ids(list) == {list[i] : i \in 1..Len(list)}

\* numactl.get_cpu_list(num)
GetCpuList ==
  /\ numactl.inited
  /\ \E num \in 0..MaxTake :
       LET r == get_cpu_list(numactl, num)
       IN /\ numactl' = r.numactl
          /\ lastTake' =
               [called |-> TRUE, num |-> num,
                pre |-> numactl.numactl_table, value |-> r.value,
                earlier |-> IF lastTake.called
                            THEN lastTake.earlier \cup Ids(lastTake.value)
                            ELSE {}]
  /\ UNCHANGED <<tasks_list, supervisorVars, workspaceVars, elementVars,
                 computeVars>>

\* ------------------------------------------------------------------------
\* One CElement: add_option calls in any order
\* ------------------------------------------------------------------------
\* how many add_option calls are made on the element
MaxAdds == 4

\* the options handed to add_option: three fragments, one of two words
Fragments ==
  {Word("--enable-kvm"), Flag("-m", Word("1024")), Word("-nographic")}

\* element.add_option(option), option a fragment or None
AddOption ==
  \E option \in Fragments \cup {NoOption} :
    /\ Len(added) < MaxAdds
    /\ option_list' = add_option(option_list, option)
    /\ added' = Append(added, option)
    /\ UNCHANGED <<tasks_list, supervisorVars, workspaceVars, computeVars,
                   numaVars>>

IdleElement == option_list = <<>> /\ added = <<>>

IdleCompute == compute_obj = NoCompute /\ cmdline = NoCmd

IdleNuma == numactl = NoNuma /\ lastTake = NoTake

IdleExtra == IdleElement /\ IdleCompute /\ IdleNuma

\* no CNode object, no workspace
IdleNode ==
  /\ tasks_list = <<>>
  /\ ws = NoWorkspace
  /\ cnode = NoNode
  /\ lastInit = NoInit

IdleSupervisor ==
  /\ pidfile = [t \in Tasks |-> Absent]
  /\ procs = [p \in Pids |-> "none"]
  /\ op = "none"
  /\ running = FALSE
  /\ idx = 1
  /\ elapsed = 0
  /\ calls = <<>>
  /\ err = "none"
  /\ last = NoCall

\* the node supervised: CNode(BaseDescriptor).init() has returned on a host
\* with no workspace, no pid file and no process
Init ==
  /\ IdleSupervisor
  /\ LET r == CNodeInit(BaseDescriptor, NoWorkspace, "none", TRUE)
     IN /\ tasks_list = r.tasks
        /\ ws = r.ws
        /\ cnode = r.cnode
  /\ lastInit = NoInit
  /\ IdleExtra

Next ==
  \/ BeginStart
  \/ RunTask
  \/ RunMaskedPoll
  \/ BeginStop
  \/ TerminateTask
  \/ BeginStatus
  \/ StatusTask
  \/ ChildExit
  \/ OtherProcess
  \/ ExternalSpawnVmm
  \/ ExternalWritePidFile

Spec == Init /\ [][Next]_vars

\* workspace materialisation: no CNode object yet, no workspace
InitWs ==
  /\ IdleSupervisor
  /\ tasks_list = <<>>
  /\ ws = NoWorkspace
  /\ cnode = NoNode
  /\ lastInit = NoInit
  /\ IdleExtra

NextWs ==
  \/ NodeInit
  \/ TerminateWorkspace

SpecWs == InitWs /\ [][NextWs]_vars

\* one CElement, nothing added yet
InitOpt == IdleSupervisor /\ IdleNode /\ IdleExtra

NextOpt == AddOption

SpecOpt == InitOpt /\ [][NextOpt]_vars

\* no CCompute object yet
InitCompute == IdleSupervisor /\ IdleNode /\ IdleExtra

NextCompute ==
  \/ ComputeInit
  \/ ComputePrecheck
  \/ GetCommandline

SpecCompute == InitCompute /\ [][NextCompute]_vars

\* no NumaCtl object yet
InitNuma == IdleSupervisor /\ IdleNode /\ IdleExtra

NextNuma ==
  \/ NumaNew
  \/ GetCpuList

SpecNuma == InitNuma /\ [][NextNuma]_vars

\* ------------------------------------------------------------------------
\* Properties
\* ------------------------------------------------------------------------
\* the task calls of one CNode call so far are those of priorities
\* first, first+step, first+2*step, ... with none skipped
CalledInOrder(first, step) ==
  \A i \in 1..Len(calls) : priority(calls[i]) = first + (i - 1) * step

\* C1: CNode.start calls run on the tasks in strictly ascending priority
\* order (serial bridge 0, BMC 1, compute 2), and CNode.stop calls terminate
\* on them in strictly descending order (compute, BMC, serial bridge),
\* whatever start, stop and status calls came before; a start that no run
\* error ends reaches all three tasks.
C1_StartAscendingStopDescending ==
  /\ op = "start" => CalledInOrder(0, 1)
  /\ op = "stop" => CalledInOrder(2, -1)
  /\ (op = "start" /\ ~running /\ err = "none") =>
        calls = <<"socat", "bmc", "compute">>

\* a stop has terminated all three tasks, the last of them a serial bridge
\* that an earlier start had spawned
C1_Witness ==
  /\ op = "stop"
  /\ ~running
  /\ calls = <<"compute", "bmc", "socat">>
  /\ last.op = "terminate"
  /\ last.pre.kind = "pid"
  /\ last.pre.pid \in last.preAlive

\* C2: Task.run (run-mask and debug unset) on a pid file that holds the pid
\* of a live process spawns nothing, raises nothing and leaves the pid file
\* as it was.
C2_RunIdempotentWhileAlive ==
  (/\ last.op = "run"
   /\ ~run_mask(last.task)
   /\ last.pre.kind = "pid"
   /\ last.pre.pid \in last.preAlive)
  => /\ last.spawned = 0
     /\ last.raised = "none"
     /\ pidfile[last.task] = last.pre
     /\ AliveSet(procs) = last.preAlive

\* run has returned on a task whose child was alive
C2_Witness ==
  /\ last.op = "run"
  /\ last.task = "socat"
  /\ last.pre.kind = "pid"
  /\ procs[last.pre.pid] = "socat"
  /\ last.report = "already running"

\* C3: Task.run (run-mask and debug unset) that starts with no pid file or
\* with a pid file whose pid has no /proc entry removes the stale file and
\* spawns exactly one child; when it returns normally the pid file holds
\* exactly the pid of that child.
C3_RunSpawnsAndPersistsPid ==
  (/\ last.op = "run"
   /\ ~run_mask(last.task)
   /\ \/ last.pre.kind = "absent"
      \/ last.pre.kind = "pid" /\ last.pre.pid \notin last.preAlive
   /\ last.raised = "none")
  => /\ last.spawned = 1
     /\ last.spawnPid \in Pids
     /\ last.removed = (last.pre.kind = "pid")
     /\ pidfile[last.task] = PidContent(last.spawnPid)
     /\ procs[last.spawnPid] = last.task
     /\ AliveSet(procs) = last.preAlive \cup {last.spawnPid}

\* run has returned normally after replacing a stale pid file
C3_Witness ==
  /\ last.op = "run"
  /\ last.task = "bmc"
  /\ last.pre.kind = "pid"
  /\ last.pre.pid \notin last.preAlive
  /\ last.raised = "none"
  /\ pidfile["bmc"] = PidContent(last.spawnPid)

\* a step of Task.run on the compute task: a poll iteration or its return
ComputeRunStep ==
  /\ running
  /\ op = "start"
  /\ tasks_list[idx] = "compute"
  /\ (calls' # calls \/ elapsed' # elapsed)

\* C4: Task.run of the compute task, whose run-mask CNode.init sets, never
\* spawns a process and never creates, rewrites or removes the pid file,
\* whatever the pid file holds; it returns only once the file is there or
\* the 5-second window is over, reporting "run" or "fail to start".
C4_MaskedRunOnlyPolls ==
  [][ComputeRunStep =>
       /\ pidfile' = pidfile
       /\ procs' = procs
       /\ calls' # calls =>
            /\ (pidfile["compute"] # Absent \/ elapsed > PollWindow)
            /\ last'.spawned = 0
            /\ last'.raised = "none"
            /\ last'.report = IF pidfile["compute"] = Absent
                              THEN "fail to start" ELSE "run"]_vars

\* the masked run has returned on a stale pid file and left it in place
C4_Witness ==
  /\ last.op = "run"
  /\ last.task = "compute"
  /\ last.pre.kind = "pid"
  /\ last.pre.pid \notin last.preAlive
  /\ pidfile["compute"] = last.pre

\* /proc/<pid> is absent for the pid the file held
ProcEntryAbsent(c, alive) ==
  \/ c.kind = "malformed"
  \/ c.kind = "pid" /\ c.pid \notin alive

\* C5: Task.status reports "stopped" exactly when no pid file exists or
\* /proc/<pid> for the pid in the file is absent; in the second case it
\* removes the pid file, in every other case it leaves the pid file alone.
C5_StatusStoppedAndCleanup ==
  last.op = "status" =>
    /\ last.report = "stopped" <=>
         (last.pre.kind = "absent" \/ ProcEntryAbsent(last.pre, last.preAlive))
    /\ pidfile[last.task] =
         IF last.pre.kind # "absent" /\ ProcEntryAbsent(last.pre, last.preAlive)
         THEN Absent ELSE last.pre

\* status has reported a task stopped and removed its stale pid file
C5_Witness ==
  /\ last.op = "status"
  /\ last.pre.kind = "pid"
  /\ last.pre.pid \notin last.preAlive
  /\ last.report = "stopped"
  /\ pidfile[last.task] = Absent

\* C6: after Task.terminate returns, the pid file does not exist, whether it
\* was absent, named a live process or named a process that no longer
\* exists; a missing process raises no error.
C6_TerminateRemovesPidFile ==
  (/\ last.op = "terminate"
   /\ last.pre.kind \in {"absent", "pid"})
  => /\ last.raised = "none"
     /\ pidfile[last.task] = Absent

\* terminate has returned on a pid file whose process was already gone
C6_Witness ==
  /\ last.op = "terminate"
  /\ last.pre.kind = "pid"
  /\ last.pre.pid \notin last.preAlive
  /\ last.raised = "none"
  /\ pidfile[last.task] = Absent

\* C7: CNode.stop is best-effort: no failure while terminating one task
\* keeps terminate from being called on every remaining task, so a stop
\* that is over has called terminate on all tasks of the node.
C7_StopReachesEveryTask ==
  (op = "stop" /\ ~running) =>
    {calls[i] : i \in 1..Len(calls)} = {tasks_list[i] : i \in 1..Len(tasks_list)}

\* the step in which a run of the start loop fails
FailingRunStep ==
  /\ calls' # calls
  /\ last'.op = "run"
  /\ last'.raised # "none"

\* C8: when run of a task fails during CNode.start, the error ends the
\* start, run is not called on any task of later priority in that start,
\* and the failing run leaves the other tasks' processes and pid files as
\* they were.
C8_StartStopsAtFailingRun ==
  /\ []((last.op = "run" /\ last.raised # "none") =>
          /\ op = "start"
          /\ ~running
          /\ err = last.raised
          /\ calls[Len(calls)] = last.task
          /\ "compute" \notin {calls[i] : i \in 1..Len(calls)})
  /\ [][(op = "start" /\ err # "none") =>
          (calls' = calls \/ calls' = <<>>)]_vars
  /\ [][FailingRunStep =>
          /\ procs' = procs
          /\ \A u \in Tasks \ {last'.task} : pidfile'[u] = pidfile[u]]_vars

\* the BMC's run has failed in a start that had spawned the serial bridge,
\* which is still running with its pid file
C8_Witness ==
  /\ op = "start"
  /\ err = "CommandRunFailed"
  /\ calls = <<"socat", "bmc">>
  /\ last.task = "bmc"
  /\ pidfile["socat"].kind = "pid"
  /\ procs[pidfile["socat"].pid] = "socat"

\* C9: when the workspace directory of the node name exists, init_workspace
\* creates, overwrites and deletes nothing and raises nothing, also when the
\* descriptor differs from the one saved in data/infrasim.yml.
C9_InitWorkspaceNoOpWhenPresent ==
  (lastInit.called /\ lastInit.pre.exists) =>
    /\ ws = lastInit.pre
    /\ lastInit.raised = "none"

\* init has run on a workspace that another descriptor had created
C9_Witness ==
  /\ lastInit.called
  /\ lastInit.pre.exists
  /\ lastInit.pre.yml # NoFile
  /\ lastInit.pre.yml # lastInit.node
  /\ ws.yml = lastInit.pre.yml

\* C10: after CNode.init, on any descriptor and any prior workspace, the
\* port rendered into data/vbmc.conf (port_qemu_ipmi) equals the port of the
\* compute command's IPMI chardev fragment.
C10_BmcConnectionPortAgrees ==
  (cnode.inited /\ ws.vbmc.how = "rendered") =>
    ws.vbmc.port_qemu_ipmi = cnode.chardev.port

\* C11: after CNode.init the serial port in the relay command
\* ("udp-listen:<p>") is the one in the compute command's -serial fragment,
\* and the pty path in the relay command ("pty,link=<path>") is the BMC
\* task's SOL device; each is the descriptor's value when the descriptor
\* gives one and otherwise the common default (9003, <workspace>/.pty0).
C11_SerialAndSolEndpointsAgree ==
  (lastInit.called /\ lastInit.raised = "none") =>
    LET node == lastInit.node
        p == IF "serial_port" \in DOMAIN node
             THEN node.serial_port ELSE 9003
        d == IF "sol_device" \in DOMAIN node
             THEN node.sol_device ELSE Workspace \o "/.pty0"
        relay == SocatCommandline(cnode.socat)
        qemu == JoinSpace(add_options(<<>>,
                                      ComputeOwnOptions(cnode.compute, "u")))
    IN /\ relay[3] = <<"udp-listen:" \o ToString(p), "reuseaddr">>
       /\ ValuesOf("-serial", qemu)
            = {<<"mon:udp:127.0.0.1:" \o ToString(p), "nowait">>}
       /\ relay[2] = <<"pty", "link=" \o d, "waitslave">>
       /\ cnode.bmc.sol_device = d

\* CNode.init has returned for a descriptor that sets both serial_port and
\* sol_device
C11_Witness ==
  /\ lastInit.called
  /\ lastInit.raised = "none"
  /\ "serial_port" \in DOMAIN lastInit.node
  /\ "sol_device" \in DOMAIN lastInit.node
  /\ cnode.socat.port_serial = lastInit.node.serial_port
  /\ cnode.bmc.sol_device = lastInit.node.sol_device

\* the members of s that are not None, each kept at its first occurrence
RECURSIVE FirstOccurrences(_, _)
FirstOccurrences(s, acc) ==
  IF s = <<>> THEN acc
  ELSE FirstOccurrences(
         Tail(s),
         IF Head(s) = NoOption \/ \E i \in 1..Len(acc) : acc[i] = Head(s)
         THEN acc ELSE Append(acc, Head(s)))

\* C12: after any sequence of add_option calls, get_option returns the
\* distinct non-null fragments in order of first insertion joined by single
\* spaces (a fragment added again is dropped and the order is unchanged),
\* and it fails exactly when no fragment has been added.
C12_GetOptionJoinsDistinctInOrder ==
  LET frs == FirstOccurrences(added, <<>>)
      r == get_option(option_list)
  IN /\ (r.raised = "Exception") <=> (frs = <<>>)
     /\ frs # <<>> => (r.raised = "none" /\ r.value = JoinSpace(frs))

\* a fragment was added, then another, then the first one again
C12_Witness ==
  /\ Len(added) >= 3
  /\ added[1] # NoOption
  /\ added[2] # NoOption
  /\ added[2] # added[1]
  /\ added[3] = added[1]
  /\ Len(option_list) = 2

\* how many drives the controller descriptors of a storage backend hold
RECURSIVE TotalDrives(_)
TotalDrives(storage_backend) ==
  IF storage_backend = <<>> THEN 0
  ELSE Len(Head(storage_backend).controller.drives)
       + TotalDrives(Tail(storage_backend))

\* C13: the compute command that get_commandline returns for a descriptor
\* with any number of controller descriptors, each with any number of
\* drives, contains exactly one -smp, one -cpu and one -m fragment and
\* exactly one -drive fragment per drive of the descriptor.
C13_OneFragmentPerDescriptorElement ==
  (cmdline.op = "get_commandline" /\ compute_obj.gets = 1) =>
    /\ CountFlag("-smp", cmdline.value) = 1
    /\ CountFlag("-cpu", cmdline.value) = 1
    /\ CountFlag("-m", cmdline.value) = 1
    /\ CountFlag("-drive", cmdline.value)
         = TotalDrives(compute_obj.info.storage_backend)

\* C14: for a CPU descriptor with quantities = Q and the default socket
\* count that passes precheck, the -smp fragment of the command is exactly
\* "-smp Q,sockets=2,cores=Q/2,threads=1" with sockets * cores * threads
\* = Q; CCPU.precheck raises ArgsNotCorrect for every Q <= 0 and every Q
\* that the socket count does not divide, and for no other Q.
C14_SmpFragmentAndPrecheck ==
  /\ (/\ cmdline.op = "get_commandline"
      /\ "quantities" \in DOMAIN compute_obj.info.cpu
      /\ CCPUPrecheck(compute_obj.obj.cpu) = "none")
     => LET Q == compute_obj.info.cpu.quantities
        IN \E cores \in 1..MaxQuantities :
             /\ 2 * cores * 1 = Q
             /\ ValuesOf("-smp", cmdline.value)
                  = {<<ToString(Q), "sockets=2",
                       "cores=" \o ToString(cores), "threads=1">>}
  /\ (/\ cmdline.op = "precheck"
      /\ cmdline.by = "cpu"
      /\ "quantities" \in DOMAIN compute_obj.info.cpu)
     => LET Q == compute_obj.info.cpu.quantities
        IN /\ (Q <= 0 \/ Q % 2 # 0) => cmdline.raised = "ArgsNotCorrect"
           /\ ~(Q <= 0 \/ Q % 2 # 0) => cmdline.raised = "none"

\* the command was rendered for quantities = 4, which passes precheck
C14_Witness ==
  /\ cmdline.op = "get_commandline"
  /\ "quantities" \in DOMAIN compute_obj.info.cpu
  /\ compute_obj.info.cpu.quantities = 4
  /\ CCPUPrecheck(compute_obj.obj.cpu) = "none"
  /\ CountFlag("-smp", cmdline.value) = 1

\* the options of a controller that are not those of its drives
ControllerFragments(ctrl) ==
  SelectSeq(ctrl.option_list, LAMBDA o : o[1] # <<"-drive">>)

\* C15: an AHCI controller with N drives and max_drive_per_controller = M
\* renders exactly ceil(N/M) controller fragments, and they are exactly
\* "-device ahci,id=sata<k>" for k = 0..ceil(N/M)-1, each one a fragment
\* for a single device.
C15_AhciControllerFragments ==
  (cmdline.op = "get_commandline" /\ compute_obj.gets = 1) =>
    \A i \in 1..Len(compute_obj.obj.storage.controller_list) :
      LET ctrl == compute_obj.obj.storage.controller_list[i]
          N == Len(ctrl.drive_list)
          M == ctrl.max_drive_per_controller
          ceil == CHOOSE c \in 0..N : c * M >= N /\ (c - 1) * M < N
      IN ctrl.controller_type = "ahci" =>
           ControllerFragments(ctrl)
             = [k \in 1..ceil |->
                  << <<"-device">>,
                     <<"ahci", "id=sata" \o ToString(k - 1)>> >>]

\* the parts of the -device word of a rendered drive option
DriveDeviceParts(drive) ==
  LET o == drive.option_list[1]
  IN {o[4][j] : j \in 1..Len(o[4])}

\* C16: with max_drive_per_controller = M the k-th drive (k from 0) of an
\* AHCI controller is rendered with bus=sata<floor(k/M)>.<k mod M>, and the
\* k-th drive of any other controller with bus=scsi<floor(k/M)>.0.
C16_DriveBusAddress ==
  (cmdline.op = "get_commandline" /\ compute_obj.gets = 1) =>
    \A i \in 1..Len(compute_obj.obj.storage.controller_list) :
      LET ctrl == compute_obj.obj.storage.controller_list[i]
          M == ctrl.max_drive_per_controller
      IN \A n \in 1..Len(ctrl.drive_list) :
           LET k == n - 1
               bus == IF ctrl.controller_type = "ahci"
                      THEN "bus=sata" \o ToString(k \div M) \o "."
                           \o ToString(k % M)
                      ELSE "bus=scsi" \o ToString(k \div M) \o ".0"
           IN bus \in DriveDeviceParts(ctrl.drive_list[n])

\* the compute command's own fragments and the BMC command after CNode.init
QemuOwnFragments ==
  JoinSpace(add_options(<<>>, ComputeOwnOptions(cnode.compute, "uuid-1")))

\* C17: for a descriptor with type = T and neither compute.smbios nor
\* bmc.emu_file, after CNode.init the compute command's -smbios fragment
\* names /usr/local/etc/infrasim/T/T_smbios.bin and the -f option of the
\* BMC command names a file T.emu.
C17_TypeSelectsPackagedFiles ==
  (/\ lastInit.called
   /\ lastInit.raised = "none"
   /\ "smbios" \notin DOMAIN lastInit.node.compute
   /\ ~has_option2(lastInit.node, "bmc", "emu_file"))
  => LET T == lastInit.node.type
     IN /\ ValuesOf("-smbios", QemuOwnFragments)
             = {<<"file=/usr/local/etc/infrasim/" \o T \o "/" \o T
                  \o "_smbios.bin">>}
        /\ ValuesOf("-f", BmcCommandline(cnode.bmc))
             \in {{<<"/usr/local/etc/infrasim/" \o T \o "/" \o T
                     \o ".emu">>},
                  {<<Workspace \o "/data/" \o T \o ".emu">>}}

\* C18: after CNode.init the compute command contains --enable-kvm only
\* if /dev/kvm existed at init, whether kvm_enabled is true, false or
\* absent from the descriptor, and never when kvm_enabled is false.
C18_KvmOnlyWithDevKvm ==
  (lastInit.called /\ lastInit.raised = "none") =>
    LET compute_info == lastInit.node.compute
        kvm == CountFlag("--enable-kvm", QemuOwnFragments) > 0
    IN /\ kvm => lastInit.dev_kvm
       /\ ("kvm_enabled" \in DOMAIN compute_info
           /\ ~compute_info.kvm_enabled) => ~kvm

\* the free CPUs of the first i nodes of node_list, counted in table
RECURSIVE FreeBefore(_, _, _)
FreeBefore(table, node_list, i) ==
  IF i = 0 THEN 0
  ELSE Len(table[node_list[i]]) + FreeBefore(table, node_list, i - 1)

\* the positions in node_list of the nodes with at least num free CPUs
FittingNodes(table, node_list, num) ==
  {i \in 1..Len(node_list) : Len(table[node_list[i]]) >= num}

\* C19: get_cpu_list(n), n >= 0, returns exactly min(n, total free) CPU ids
\* whatever the pool holds; when some node has at least n free CPUs all
\* the ids come from one node, the first such node in enumeration order;
\* otherwise the nodes are drained in enumeration order until n ids are
\* collected or the pool is empty.
C19_GetCpuListCountAndOrder ==
  lastTake.called =>
    LET nodes == numactl.node_list
        pre == lastTake.pre
        post == numactl.numactl_table
        n == lastTake.num
        total == FreeBefore(pre, nodes, Len(nodes))
        fits == FittingNodes(pre, nodes, n)
        took(i) == Len(pre[nodes[i]]) - Len(post[nodes[i]])
    IN /\ Len(lastTake.value) = IF n < total THEN n ELSE total
       /\ fits # {} =>
            LET first == CHOOSE i \in fits : \A j \in fits : i <= j
            IN /\ Ids(lastTake.value) \subseteq Ids(pre[nodes[first]])
               /\ \A i \in 1..Len(nodes) : i # first => took(i) = 0
       /\ fits = {} =>
            \A i \in 1..Len(nodes) :
              LET left == n - FreeBefore(pre, nodes, i - 1)
                  free == Len(pre[nodes[i]])
              IN took(i) = IF left <= 0 THEN 0
                           ELSE IF free < left THEN free ELSE left

\* no node could serve the call alone: it was served from both nodes
C19_Witness ==
  /\ lastTake.called
  /\ FittingNodes(lastTake.pre, numactl.node_list, lastTake.num) = {}
  /\ Len(lastTake.value) = lastTake.num
  /\ \A i \in 1..Len(numactl.node_list) :
       Len(numactl.numactl_table[numactl.node_list[i]])
         < Len(lastTake.pre[numactl.node_list[i]])

\* C20: over any sequence of get_cpu_list calls on one NumaCtl whose
\* per-node CPU lists are disjoint, no CPU id is returned by more than one
\* call (nor twice by one), and the free pool after a call is the pool
\* before it minus exactly the ids the call returned.
C20_CpusReturnedOnce ==
  lastTake.called =>
    LET v == lastTake.value
    IN /\ Ids(v) \cap lastTake.earlier = {}
       /\ Cardinality(Ids(v)) = Len(v)
       /\ \A node \in DOMAIN lastTake.pre :
            numactl.numactl_table[node]
              = SelectSeq(lastTake.pre[node], LAMBDA c : c \notin Ids(v))
       /\ Ids(v) \subseteq
            UNION {Ids(lastTake.pre[node]) : node \in DOMAIN lastTake.pre}

\* a call returned CPUs after an earlier call had returned some
C20_Witness ==
  /\ lastTake.called
  /\ lastTake.earlier # {}
  /\ Len(lastTake.value) > 0

\* ------------------------------------------------------------------------
\* C21: when the child spawned by Task.run is not alive at the probe, run
\* raises CommandRunFailed and on return the task has no pid file (a stale
\* one found by the call is removed, no new one is written), so that
\* Task.status would report the task stopped
\* ------------------------------------------------------------------------
C21_FailedSpawnLeavesNoPidFile ==
  (last.op = "run" /\ last.spawned = 1 /\ last.spawnPid \notin AliveSet(procs))
    => /\ last.raised = "CommandRunFailed"
       /\ pidfile[last.task] = Absent
       /\ TaskStatus(last.task, pidfile[last.task], procs).report = "stopped"
       /\ TaskStatus(last.task, pidfile[last.task], procs).file = Absent

\* a run that found a stale pid file and whose child died within the window
C21_Witness ==
  /\ last.op = "run"
  /\ last.raised = "CommandRunFailed"
  /\ last.pre.kind = "pid"
  /\ last.removed
  /\ pidfile[last.task] = Absent

\* ------------------------------------------------------------------------
\* C22: a drive's rendered -device word has a part model=<v> only when its
\* controller type is ahci, and a part vendor=<v> only when its controller
\* type is megasas or megasas-gen2
\* ------------------------------------------------------------------------
C22_ModelOnlyAhciVendorOnlyMegasas ==
  (cmdline.op = "get_commandline" /\ compute_obj.gets = 1) =>
    \A i \in 1..Len(compute_obj.obj.storage.controller_list) :
      LET ctrl == compute_obj.obj.storage.controller_list[i]
      IN \A n \in 1..Len(ctrl.drive_list) :
           LET parts == DriveDeviceParts(ctrl.drive_list[n])
           IN /\ "model=SATADOM" \in parts
                   => ctrl.controller_type = "ahci"
              /\ "vendor=Hitachi" \in parts
                   => ctrl.controller_type \in {"megasas", "megasas-gen2"}

\* ------------------------------------------------------------------------
\* C23: whatever run, terminate and status calls are made on a task whose
\* run-mask is unset, at most one child process spawned for it is alive
\* ------------------------------------------------------------------------
C23_AtMostOneLiveChild ==
  \A t \in Tasks :
    ~run_mask(t) => Cardinality({p \in Pids : procs[p] = t}) <= 1

\* ------------------------------------------------------------------------
\* C24: every Task.status call prints one verdict, "is running" or
\* "is stopped", whatever the pid file is: absent, holding a live pid,
\* holding a dead pid, or empty
\* ------------------------------------------------------------------------
C24_StatusAlwaysReports ==
  last.op = "status" => last.report \in {"running", "stopped"}

\* ------------------------------------------------------------------------
\* C25: whenever init_workspace returns without error the workspace is
\* complete: the directories data and script, data/infrasim.yml, the staged
\* emulation file and the SMBIOS file all exist, also when an earlier call
\* for the same node name failed after creating the workspace directory
\* ------------------------------------------------------------------------
C25_WorkspaceCompleteAfterInit ==
  (lastInit.called /\ lastInit.raised = "none")
    => /\ ws.exists /\ ws.data /\ ws.script
       /\ ws.yml # NoFile
       /\ ws.emu
       /\ ws.smbios

\* ------------------------------------------------------------------------
\* C26: for a controller descriptor with N drives and
\* max_drive_per_controller = M, the controller index in every drive's bus
\* address is less than ceil(N/M), the number of controller devices rendered
\* ------------------------------------------------------------------------
C26_BusAddressNamesEmittedController ==
  compute_obj.inited =>
    \A i \in 1..Len(compute_obj.obj.storage.controller_list) :
      LET ctrl == compute_obj.obj.storage.controller_list[i]
          emitted == ControllerQuantities(Len(ctrl.drive_list),
                                          ctrl.max_drive_per_controller)
      IN \A n \in 1..Len(ctrl.drive_list) :
           \E k \in 0..(emitted - 1) :
             ctrl.drive_list[n].bus_address
               = BusPrefix(ctrl.controller_type) \o ToString(k) \o "."
                 \o (IF ctrl.controller_type = "ahci"
                     THEN ToString(n - 1) ELSE "0")

\* the drives of the element tree as <<controller, position>>, and the
\* controller devices rendered as <<controller, controller_index>>
DrivesOf(storage) ==
  {d \in (1..Len(storage.controller_list)) \X (1..MaxDrives) :
     d[2] <= Len(storage.controller_list[d[1]].drive_list)}

ControllerDevicesOf(storage) ==
  {d \in (1..Len(storage.controller_list)) \X (0..MaxDrives) :
     d[2] < ControllerQuantities(
              Len(storage.controller_list[d[1]].drive_list),
              storage.controller_list[d[1]].max_drive_per_controller)}

\* ------------------------------------------------------------------------
\* C27: across the compute command, for any number of controller
\* descriptors, every drive has its own id drive<i>, every drive whose image
\* is created for it has its own file sd<letter>.img, and every controller
\* device rendered has its own id
\* ------------------------------------------------------------------------
C27_DriveAndControllerIdsDistinct ==
  compute_obj.inited =>
    LET storage == compute_obj.obj.storage
        drive(d) == storage.controller_list[d[1]].drive_list[d[2]]
        id(c) == BusPrefix(storage.controller_list[c[1]].controller_type)
                 \o ToString(c[2])
    IN /\ \A d1, d2 \in DrivesOf(storage) :
            d1 # d2 => /\ drive(d1).index # drive(d2).index
                       /\ drive(d1).file # drive(d2).file
       /\ \A c1, c2 \in ControllerDevicesOf(storage) :
            c1 # c2 => id(c1) # id(c2)

\* the fragments of a command: the set of its words
FragmentSet(str) == {str[j] : j \in 1..Len(str)}

\* ------------------------------------------------------------------------
\* C28: get_commandline called again on the same initialized compute task
\* returns a command with the same fragments as the call before, with one
\* -uuid fragment, and leaves the NUMA CPU pool as that call left it
\* ------------------------------------------------------------------------
C28_GetCommandlineRepeatable ==
  [][(cmdline.op = "get_commandline" /\ cmdline'.op = "get_commandline")
       => /\ FragmentSet(cmdline'.value) = FragmentSet(cmdline.value)
          /\ CountFlag("-uuid", cmdline'.value) = 1
          /\ compute_obj'.obj.numactl_obj = compute_obj.obj.numactl_obj]_vars

\* ------------------------------------------------------------------------
\* C29: every CPU id get_cpu_list returns is in the allowed CPU list, the
\* one parsed from the physcpubind line of "numactl --show"
\* ------------------------------------------------------------------------
C29_ReturnedCpusAreAllowed ==
  lastTake.called => Ids(lastTake.value) \subseteq Ids(numactl.cpu_list)

\* ------------------------------------------------------------------------
\* C30: the option of the backend network holds one network fragment per
\* NIC descriptor, in descriptor order, for any list of NIC descriptors,
\* several NICs in nat mode included
\* ------------------------------------------------------------------------
C30_OneFragmentPerNic ==
  (cmdline.op = "get_commandline" /\ compute_obj.gets = 1) =>
    LET network == compute_obj.obj.network
    IN /\ Len(network.network_list) = Len(compute_obj.info.networks)
       /\ network.option_list
            = [i \in 1..Len(network.network_list) |->
                 network.network_list[i].option_list[1]]

====
